---- MODULE Spec2Model ----
(***************************************************************************)
(* Model of the road-to-rail derivation engine of FreightNetwork           *)
(* (src/freight_network.py) and of the OD pair constructor exercised by    *)
(* src/modules/builder/components/test_od.py.                              *)
(*                                                                         *)
(* Numbers.  A Python number is a record: [k |-> "int", v |-> n] for the   *)
(* int n, and for a float (Python float or numpy.float64, both IEEE 754    *)
(* binary64) one of                                                        *)
(*   [k |-> "fin", s, m, e]   the double (-1)^s * m * 2^e, m odd,          *)
(*                            or m = 0 and e = 0 for the zero of sign s,   *)
(*   [k |-> "inf", s, ...]    the infinity of sign s,                      *)
(*   [k |-> "nan", ...]       nan,                                         *)
(* where the mantissa m is a little-endian sequence of 15-bit limbs        *)
(* (<<>> is 0, <<5>> is 5, <<0, 1>> is 32768).  Every float operation      *)
(* computes the exact result and rounds it to the nearest double, ties to  *)
(* even, with gradual underflow and overflow to infinity, as the hardware  *)
(* does.  numpy.linalg.norm of a 2-vector is the square root of the dot    *)
(* product accumulated by multiplications and additions rounded one by one.*)
(***************************************************************************)
EXTENDS Integers, Sequences, FiniteSets, TLC

VARIABLES
    params,      \* self.rail.params: name -> value
    ods,         \* the road OD pairs (static attributes), by position in ODIds
    roadTon,     \* tons of each road OD pair
    railTon,     \* tons of each rail OD pair, keyed by <<id, category>>
    roadOrig,    \* original_ton of each road link, keyed by <<link id, gauge>>
    railDer,     \* derived_ton of each rail link, keyed by <<link id, gauge>>
    pre,         \* the four ledgers as they were when the last call started
    last,        \* the last call: operation, arguments, exception raised, and
                 \* the OD pairs a bulk call had not finished when it raised
    steps,       \* number of calls made so far
    fnIn,        \* input of the pure-function specification
    fnOut,       \* its result
    ctorIn,      \* input of the OD constructor specification
    ctorOut      \* the constructed OD pair

vars == <<params, ods, roadTon, railTon, roadOrig, railDer, pre, last, steps,
          fnIn, fnOut, ctorIn, ctorOut>>

netVars == <<params, ods, roadTon, railTon, roadOrig, railDer, pre, last, steps>>

---------------------------------------------------------------------------
(* Bounds *)

\* calls of derive_to_railway / derive_all_to_railway per behaviour
MaxSteps == 2
\* largest tons and distance of the OD pairs given to the private functions
MaxUnits == 5
\* longest path string, in nodes, given to the OD constructor
MaxPath == 3
\* road OD pairs in the road network
NumOD == 2

---------------------------------------------------------------------------
(* Natural numbers of any size: little-endian sequences of 15-bit limbs, *)
(* the top limb non-zero; <<>> is 0.                                      *)
LimbBits == 15
Base == 32768

Pow2Tab == <<1, 2, 4, 8, 16, 32, 64, 128, 256, 512, 1024, 2048, 4096, 8192,
             16384, 32768, 65536, 131072, 262144, 524288, 1048576, 2097152,
             4194304, 8388608, 16777216, 33554432, 67108864, 134217728,
             268435456, 536870912, 1073741824>>

Pow2(k) == Pow2Tab[k + 1]

Abs(x) == IF x < 0 THEN -x ELSE x

RECURSIVE IntBitLen(_)
IntBitLen(x) == IF x = 0 THEN 0 ELSE 1 + IntBitLen(x \div 2)

RECURSIVE TrailingZeros(_)
TrailingZeros(x) == IF x % 2 = 1 THEN 0 ELSE 1 + TrailingZeros(x \div 2)

RECURSIVE BTrim(_)
BTrim(a) ==
    IF Len(a) = 0 THEN <<>>
    ELSE IF a[Len(a)] # 0 THEN a
    ELSE BTrim(SubSeq(a, 1, Len(a) - 1))

BLimb(a, i) == IF i <= Len(a) THEN a[i] ELSE 0

RECURSIVE BFromInt(_)
BFromInt(x) == IF x = 0 THEN <<>> ELSE <<x % Base>> \o BFromInt(x \div Base)

BBitLen(a) ==
    IF Len(a) = 0 THEN 0 ELSE LimbBits * (Len(a) - 1) + IntBitLen(a[Len(a)])

RECURSIVE BAddFrom(_, _, _, _)
BAddFrom(a, b, i, carry) ==
    IF i > Len(a) /\ i > Len(b)
    THEN IF carry = 0 THEN <<>> ELSE <<carry>>
    ELSE LET s == BLimb(a, i) + BLimb(b, i) + carry
         IN  <<s % Base>> \o BAddFrom(a, b, i + 1, s \div Base)

BAdd(a, b) == BAddFrom(a, b, 1, 0)

\* a - b for a >= b, before trimming
RECURSIVE BSubFrom(_, _, _, _)
BSubFrom(a, b, i, borrow) ==
    IF i > Len(a) THEN <<>>
    ELSE LET s == a[i] - BLimb(b, i) - borrow
         IN  IF s < 0 THEN <<s + Base>> \o BSubFrom(a, b, i + 1, 1)
             ELSE <<s>> \o BSubFrom(a, b, i + 1, 0)

BSub(a, b) == BTrim(BSubFrom(a, b, 1, 0))

\* -1, 0, 1 as a < b, a = b, a > b, comparing limbs i, i-1, ..., 1
RECURSIVE BCmpFrom(_, _, _)
BCmpFrom(a, b, i) ==
    IF i = 0 THEN 0
    ELSE IF a[i] < b[i] THEN -1
    ELSE IF a[i] > b[i] THEN 1
    ELSE BCmpFrom(a, b, i - 1)

BCmp(a, b) ==
    IF Len(a) < Len(b) THEN -1
    ELSE IF Len(a) > Len(b) THEN 1
    ELSE BCmpFrom(a, b, Len(a))

\* a * k for 0 <= k <= Base
RECURSIVE BMulLimbFrom(_, _, _, _)
BMulLimbFrom(a, k, i, carry) ==
    IF i > Len(a) THEN BFromInt(carry)
    ELSE LET s == a[i] * k + carry
         IN  <<s % Base>> \o BMulLimbFrom(a, k, i + 1, s \div Base)

BMulLimb(a, k) == IF k = 0 THEN <<>> ELSE BMulLimbFrom(a, k, 1, 0)

Zeros(n) == [i \in 1..n |-> 0]

\* a * Base^n
BShiftLimbs(a, n) == IF Len(a) = 0 \/ n = 0 THEN a ELSE Zeros(n) \o a

RECURSIVE BMulFrom(_, _, _)
BMulFrom(a, b, i) ==
    IF i > Len(b) THEN <<>>
    ELSE BAdd(BMulLimb(a, b[i]), BShiftLimbs(BMulFrom(a, b, i + 1), 1))

BMul(a, b) == IF Len(a) = 0 THEN <<>> ELSE BMulFrom(a, b, 1)

\* a * 2^n
BShl(a, n) == BShiftLimbs(BMulLimb(a, Pow2(n % LimbBits)), n \div LimbBits)

\* floor(a / 2^n)
BShr(a, n) ==
    LET w == n \div LimbBits
        b == n % LimbBits
        len == Len(a) - w
    IN  IF len <= 0 THEN <<>>
        ELSE IF b = 0 THEN SubSeq(a, w + 1, Len(a))
        ELSE BTrim([i \in 1..len |->
                       (a[w + i] \div Pow2(b))
                       + (BLimb(a, w + i + 1) % Pow2(b)) * Pow2(LimbBits - b)])

\* are the n lowest bits of a all zero
BLowZero(a, n) ==
    LET w == n \div LimbBits
        b == n % LimbBits
    IN  /\ \A i \in 1..w : BLimb(a, i) = 0
        /\ BLimb(a, w + 1) % Pow2(b) = 0

\* bit i of a, bit 0 the lowest
BBit(a, i) == (BLimb(a, (i \div LimbBits) + 1) \div Pow2(i % LimbBits)) % 2

BOdd(a) == Len(a) > 0 /\ a[1] % 2 = 1

\* number of zero limbs below the lowest non-zero limb of a # 0
RECURSIVE BZeroLimbs(_, _)
BZeroLimbs(a, i) == IF a[i] # 0 THEN i - 1 ELSE BZeroLimbs(a, i + 1)

\* number of zero bits below the lowest set bit of a # 0
BTrailingZeros(a) ==
    LET z == BZeroLimbs(a, 1) IN LimbBits * z + TrailingZeros(a[z + 1])

---------------------------------------------------------------------------
(* IEEE 754 binary64.  A finite double is the record                       *)
(* [k |-> "fin", s, m, e] of value (-1)^s * m * 2^e with m odd, or m = <<>> *)
(* and e = 0 for a zero; "inf" and "nan" carry m = <<>>, e = 0.            *)

MantBits == 53
MinExp == -1074
MaxTop == 1024

Fin(s, m, e) == [k |-> "fin", s |-> s, m |-> m, e |-> e]
FZero(s) == Fin(s, <<>>, 0)
FInf(s) == [k |-> "inf", s |-> s, m |-> <<>>, e |-> 0]
FNaN == [k |-> "nan", s |-> 0, m |-> <<>>, e |-> 0]

IsNaN(a) == a.k = "nan"
IsZero(a) == a.k = "fin" /\ Len(a.m) = 0

\* the double of value (-1)^s * n * 2^e exactly (n of at most 53 bits)
Canon(s, n, e) ==
    IF Len(n) = 0 THEN FZero(s)
    ELSE IF BBitLen(n) + e > MaxTop THEN FInf(s)
    ELSE LET z == BTrailingZeros(n) IN Fin(s, BShr(n, z), e + z)

\* round to nearest, ties to even: the double nearest (-1)^s * (n + f) * 2^e,
\* f = 0 when ~sticky and 0 < f < 1 when sticky (n then has 55 bits or more)
Round(s, n, e, sticky) ==
    LET top == BBitLen(n) + e
        lsb == IF top - MantBits > MinExp THEN top - MantBits ELSE MinExp
        d == lsb - e
    IN  IF d <= 0 THEN Canon(s, n, e)
        ELSE LET kept == BShr(n, d)
                 half == BBit(n, d - 1) = 1
                 rest == sticky \/ ~BLowZero(n, d - 1)
                 up == half /\ (rest \/ BOdd(kept))
             IN  Canon(s, IF up THEN BAdd(kept, <<1>>) ELSE kept, lsb)

\* the double of a Python int
FromInt(x) == Canon(IF x < 0 THEN 1 ELSE 0, BFromInt(Abs(x)), 0)

FNeg(a) == IF IsNaN(a) THEN a ELSE [a EXCEPT !.s = 1 - @]
FAbs(a) == [a EXCEPT !.s = 0]

FTop(a) == BBitLen(a.m) + a.e

\* -1, 0, 1 as |a| < |b|, |a| = |b|, |a| > |b|, for finite non-zero a, b
MagCmp(a, b) ==
    IF FTop(a) < FTop(b) THEN -1
    ELSE IF FTop(a) > FTop(b) THEN 1
    ELSE IF a.e <= b.e THEN BCmp(a.m, BShl(b.m, b.e - a.e))
    ELSE BCmp(BShl(a.m, a.e - b.e), b.m)

\* -1, 0, 1 as a < b, a = b, a > b, for a, b not nan
FCmp(a, b) ==
    IF IsZero(a) /\ IsZero(b) THEN 0
    ELSE IF IsZero(a) THEN (IF b.s = 1 THEN 1 ELSE -1)
    ELSE IF IsZero(b) THEN (IF a.s = 1 THEN -1 ELSE 1)
    ELSE IF a.s # b.s THEN (IF a.s = 1 THEN -1 ELSE 1)
    ELSE LET mag == IF a.k = "inf" THEN (IF b.k = "inf" THEN 0 ELSE 1)
                    ELSE IF b.k = "inf" THEN -1
                    ELSE MagCmp(a, b)
         IN  IF a.s = 1 THEN -mag ELSE mag

FLt(a, b) == ~IsNaN(a) /\ ~IsNaN(b) /\ FCmp(a, b) < 0
FLeq(a, b) == ~IsNaN(a) /\ ~IsNaN(b) /\ FCmp(a, b) <= 0
FEq(a, b) == ~IsNaN(a) /\ ~IsNaN(b) /\ FCmp(a, b) = 0

\* a + b for finite non-zero a, b
AddFinite(a, b) ==
    IF FTop(a) - FTop(b) > 60 THEN a
    ELSE IF FTop(b) - FTop(a) > 60 THEN b
    ELSE LET e == IF a.e < b.e THEN a.e ELSE b.e
             x == BShl(a.m, a.e - e)
             y == BShl(b.m, b.e - e)
             c == BCmp(x, y)
         IN  IF a.s = b.s THEN Round(a.s, BAdd(x, y), e, FALSE)
             ELSE IF c = 0 THEN FZero(0)
             ELSE IF c > 0 THEN Round(a.s, BSub(x, y), e, FALSE)
             ELSE Round(b.s, BSub(y, x), e, FALSE)

FAdd(a, b) ==
    IF IsNaN(a) \/ IsNaN(b) THEN FNaN
    ELSE IF a.k = "inf" THEN (IF b.k = "inf" /\ a.s # b.s THEN FNaN ELSE a)
    ELSE IF b.k = "inf" THEN b
    ELSE IF IsZero(a) THEN (IF IsZero(b) THEN FZero(IF a.s = 1 /\ b.s = 1 THEN 1 ELSE 0)
                            ELSE b)
    ELSE IF IsZero(b) THEN a
    ELSE AddFinite(a, b)

FSub(a, b) == FAdd(a, FNeg(b))

FMul(a, b) ==
    LET s == IF a.s = b.s THEN 0 ELSE 1
    IN  IF IsNaN(a) \/ IsNaN(b) THEN FNaN
        ELSE IF a.k = "inf" \/ b.k = "inf"
        THEN (IF IsZero(a) \/ IsZero(b) THEN FNaN ELSE FInf(s))
        ELSE IF IsZero(a) \/ IsZero(b) THEN FZero(s)
        ELSE Round(s, BMul(a.m, b.m), a.e + b.e, FALSE)

(* Numbers below 2^60 as pairs <<hi, lo>> of 30-bit halves, for the loops *)
(* of the division and of the square root.                               *)
HalfBase == 1073741824

\* 2 * w + bit
WDbl(w, bit) ==
    <<2 * w[1] + ((2 * w[2] + bit) \div HalfBase), (2 * w[2] + bit) % HalfBase>>

WGeq(a, b) == a[1] > b[1] \/ (a[1] = b[1] /\ a[2] >= b[2])

\* a - b for a >= b
WSub(a, b) ==
    IF a[2] >= b[2] THEN <<a[1] - b[1], a[2] - b[2]>>
    ELSE <<a[1] - b[1] - 1, a[2] - b[2] + HalfBase>>

WFromB(a) == <<BLimb(a, 3) + Base * BLimb(a, 4), BLimb(a, 1) + Base * BLimb(a, 2)>>

BFromW(w) == BTrim(<<w[2] % Base, w[2] \div Base, w[1] % Base, w[1] \div Base>>)

\* n more quotient bits of r / d for r < d, st the pair <<quotient so far,
\* remainder>>; the recursion is kept shallow, the callers chain the calls
RECURSIVE DivBits(_, _, _)
DivBits(st, d, n) ==
    IF n = 0 THEN st
    ELSE IF WGeq(WDbl(st[2], 0), d)
    THEN DivBits(<<WDbl(st[1], 1), WSub(WDbl(st[2], 0), d)>>, d, n - 1)
    ELSE DivBits(<<WDbl(st[1], 0), WDbl(st[2], 0)>>, d, n - 1)

\* x / y for finite non-zero x, y: the mantissas are brought to the same
\* length, so that the quotient is 1 or 0 followed by 57 bits after the point
DivFinite(x, y) ==
    LET s == IF x.s = y.s THEN 0 ELSE 1
        la == BBitLen(x.m)
        lb == BBitLen(y.m)
        a == WFromB(IF la < lb THEN BShl(x.m, lb - la) ELSE x.m)
        b == WFromB(IF lb < la THEN BShl(y.m, la - lb) ELSE y.m)
        st0 == IF WGeq(a, b) THEN <<(<<0, 1>>), WSub(a, b)>> ELSE <<(<<0, 0>>), a>>
        st1 == DivBits(st0, b, 19)
        st2 == DivBits(st1, b, 19)
        st3 == DivBits(st2, b, 19)
    IN  IF y.m = <<1>> THEN Round(s, x.m, x.e - y.e, FALSE)
        ELSE Round(s, BFromW(st3[1]), x.e - y.e + la - lb - 57, st3[2] # <<0, 0>>)

\* IEEE division: x / 0 is inf or nan, never an exception
FDiv(a, b) ==
    LET s == IF a.s = b.s THEN 0 ELSE 1
    IN  IF IsNaN(a) \/ IsNaN(b) THEN FNaN
        ELSE IF a.k = "inf" THEN (IF b.k = "inf" THEN FNaN ELSE FInf(s))
        ELSE IF b.k = "inf" THEN FZero(s)
        ELSE IF IsZero(b) THEN (IF IsZero(a) THEN FNaN ELSE FInf(s))
        ELSE IF IsZero(a) THEN FZero(s)
        ELSE DivFinite(a, b)

\* the remainder of a square root step: 4 * r + the next two bits of n
SqrtRem(n, j, r) == WDbl(WDbl(r, BBit(n, 2 * j + 1)), BBit(n, 2 * j))

\* integer square root of n, two bits at a time for c pairs from pair j down,
\* st the pair <<root so far, remainder so far>>
RECURSIVE SqrtPairs(_, _, _, _)
SqrtPairs(n, j, c, st) ==
    IF c = 0 THEN st
    ELSE IF WGeq(SqrtRem(n, j, st[2]), WDbl(WDbl(st[1], 0), 1))
    THEN SqrtPairs(n, j - 1, c - 1,
                   <<WDbl(st[1], 1), WSub(SqrtRem(n, j, st[2]), WDbl(WDbl(st[1], 0), 1))>>)
    ELSE SqrtPairs(n, j - 1, c - 1, <<WDbl(st[1], 0), SqrtRem(n, j, st[2])>>)

\* sqrt of a finite positive x: the mantissa is extended to 111 or 112 bits
\* with an even exponent, so that the root has 56 bits
SqrtFinite(x) ==
    LET l == BBitLen(x.m)
        k == IF (x.e - (111 - l)) % 2 = 0 THEN 111 - l ELSE 112 - l
        n == BShl(x.m, k)
        st1 == SqrtPairs(n, 55, 14, <<(<<0, 0>>), (<<0, 0>>)>>)
        st2 == SqrtPairs(n, 41, 14, st1)
        st3 == SqrtPairs(n, 27, 14, st2)
        st4 == SqrtPairs(n, 13, 14, st3)
    IN  Round(0, BFromW(st4[1]), (x.e - k) \div 2, st4[2] # <<0, 0>>)

FSqrt(a) ==
    IF IsNaN(a) THEN FNaN
    ELSE IF IsZero(a) THEN a
    ELSE IF a.s = 1 THEN FNaN
    ELSE IF a.k = "inf" THEN a
    ELSE SqrtFinite(a)

---------------------------------------------------------------------------
(* Python numbers: ints and floats *)

IntNum(v) == [k |-> "int", v |-> v]

IsInt(a) == a.k = "int"

\* float(a)
Float(a) == IF IsInt(a) THEN FromInt(a.v) ELSE a

\* the float literal of an integer value, and of the decimal p / q: the
\* double nearest to it
Flt(v) == FromInt(v)
Dec(p, q) == FDiv(FromInt(p), FromInt(q))

Zero == FZero(0)
One == Flt(1)
NaN == FNaN

Add(a, b) ==
    IF IsInt(a) /\ IsInt(b) THEN IntNum(a.v + b.v) ELSE FAdd(Float(a), Float(b))

Sub(a, b) ==
    IF IsInt(a) /\ IsInt(b) THEN IntNum(a.v - b.v) ELSE FSub(Float(a), Float(b))

Mul(a, b) ==
    IF IsInt(a) /\ IsInt(b) THEN IntNum(a.v * b.v) ELSE FMul(Float(a), Float(b))

\* comparisons; an int and a float compare by value, and every comparison
\* with nan is false
Lt(a, b) == IF IsInt(a) /\ IsInt(b) THEN a.v < b.v ELSE FLt(Float(a), Float(b))
Leq(a, b) == IF IsInt(a) /\ IsInt(b) THEN a.v <= b.v ELSE FLeq(Float(a), Float(b))
Gt(a, b) == Lt(b, a)
Geq(a, b) == Leq(b, a)

\* a == b: by value, so that 0.0 == -0.0 and an int equals the float of the
\* same value; nan equals nothing
Eq(a, b) == IF IsInt(a) /\ IsInt(b) THEN a.v = b.v ELSE FEq(Float(a), Float(b))

\* a == 0
IsZeroNum(a) == IF IsInt(a) THEN a.v = 0 ELSE IsZero(a)

\* abs(a)
AbsNum(a) == IF IsInt(a) THEN IntNum(Abs(a.v)) ELSE FAbs(a)

\* Python's min(a, b): b if b < a else a
Min(a, b) == IF Lt(b, a) THEN b ELSE a

\* numpy.linalg.norm of the float 2-vector (x, y): sqrt(dot((x, y), (x, y)))
Norm(x, y) == FSqrt(FAdd(FMul(x, x), FMul(y, y)))

\* Python's None, for a value that is absent
None == [k |-> "none"]

---------------------------------------------------------------------------
(* Eligibility and derivation coefficient (FreightNetwork, private part) *)

Categories == {0, 1, 7}

\* "max_derivation_" + str(od_category)
ParamName(category) ==
    CASE category = 0 -> "max_derivation_0"
      [] category = 1 -> "max_derivation_1"
      [] category = 7 -> "max_derivation_7"

\* a / b as Python 2 evaluates it for b # 0: without
\* "from __future__ import division" the quotient of two ints is floored
PyDiv(a, b) ==
    IF IsInt(a) /\ IsInt(b)
    THEN IntNum(IF b.v < 0 THEN (0 - a.v) \div (0 - b.v) ELSE a.v \div b.v)
    ELSE FDiv(Float(a), Float(b))

\* _od_pair_is_derivable(od): [exc, val]
OdPairIsDerivable(p, od) ==
    IF od.intrazone \/ od.category = 0 THEN [exc |-> "none", val |-> FALSE]
    ELSE IF ~od.hasRailPath THEN [exc |-> "none", val |-> FALSE]
    ELSE LET min_ton == Gt(od.ton, p["min_tons_to_derive"])
             min_dist == Gt(od.dist, p["min_dist_to_derive"])
             max_diff == p["max_path_difference"]
             dist_rail == od.distRail
             dist_road == od.distRoad
         IN  IF IsZeroNum(dist_road)
             THEN [exc |-> "ZeroDivisionError", val |-> FALSE]
             ELSE LET ratio == PyDiv(dist_rail, dist_road)
                      railway_path_is_plausible ==
                          Lt(AbsNum(Sub(ratio, IntNum(1))), max_diff)
                  IN  [exc |-> "none",
                       val |-> min_ton /\ min_dist /\ railway_path_is_plausible]

\* max_deriv: the category's parameter when present, else the generic one
MaxDerivGeneric(p, category) == Float(p["max_derivation"])

MaxDeriv(p, category) ==
    IF ParamName(category) \in DOMAIN p
    THEN Float(p[ParamName(category)])
    ELSE Float(p["max_derivation"])

\* dist_to_min / total_dist on numpy.float64: a division by 0.0 gives nan or
\* inf (with a warning), not an exception
NormRatioInverted(dist_to_min, total_dist) == FDiv(total_dist, dist_to_min)

NormRatio(dist_to_min, total_dist) == FDiv(dist_to_min, total_dist)

\* lines 181-201 for max_dist - min_dist # 0: the vectorial distances of the
\* OD pair to the minimum and to the maximum derivation conditions.  Every
\* value of the code is computed once and handed on by name.
VectorDistances(p, od) ==
    LET Norms(min_tons, max_tons, tons, dist_in_tons, min_dist_in_tons, max_dist_in_tons) ==
            [to_min |-> Norm(FSub(tons, min_tons), FSub(dist_in_tons, min_dist_in_tons)),
             to_max |-> Norm(FSub(max_tons, tons), FSub(max_dist_in_tons, dist_in_tons))]
        InTons(min_tons, max_tons, min_dist, max_dist, coef_ton_dist) ==
            Norms(min_tons, max_tons,
                  Float(Min(od.ton, max_tons)),
                  Mul(Min(od.dist, max_dist), coef_ton_dist),
                  FMul(min_dist, coef_ton_dist),
                  FMul(max_dist, coef_ton_dist))
        Limits(min_tons, max_tons, min_dist, max_dist) ==
            InTons(min_tons, max_tons, min_dist, max_dist,
                   FDiv(FSub(max_tons, min_tons), FSub(max_dist, min_dist)))
    IN  Limits(Float(p["min_tons_to_derive"]), Float(p["tons_of_max_derivation"]),
               Float(p["min_dist_to_derive"]), Float(p["dist_of_max_derivation"]))

\* the interpolation branch of _get_derivation_coefficient; the Python float
\* division by max_dist - min_dist = 0.0 raises ZeroDivisionError
Interpolate(p, od, max_deriv) ==
    LET Coefficient(dist_to_min, dist_to_max) ==
            FMul(max_deriv, NormRatio(dist_to_min, FAdd(dist_to_min, dist_to_max)))
        Between(v) == [exc |-> "none", val |-> Coefficient(v.to_min, v.to_max)]
    IN  IF IsZero(FSub(Float(p["dist_of_max_derivation"]), Float(p["min_dist_to_derive"])))
        THEN [exc |-> "ZeroDivisionError", val |-> Zero]
        ELSE Between(VectorDistances(p, od))

\* _get_derivation_coefficient(od): [exc, val]
GetDerivationCoefficient(p, od) ==
    LET max_deriv == MaxDeriv(p, od.category)
    IN  IF Geq(od.dist, Float(p["dist_of_max_derivation"]))
           /\ Geq(od.ton, Float(p["tons_of_max_derivation"]))
        THEN [exc |-> "none", val |-> max_deriv]
        ELSE IF Leq(od.dist, Float(p["min_dist_to_derive"]))
                /\ Geq(od.ton, Float(p["min_tons_to_derive"]))
        THEN [exc |-> "none", val |-> Zero]
        ELSE Interpolate(p, od, max_deriv)


---------------------------------------------------------------------------
(* Specification SpecFn: the two private functions on enumerated inputs *)

Half == Dec(1, 2)
Fifth == Dec(1, 5)
ThreeQuarters == Dec(3, 4)

EmptyTable == [x \in {} |-> Zero]

\* the caps by category of a table: none, or max_derivation_<category>
NoCap == EmptyTable
Cap(category, value) == [x \in {ParamName(category)} |-> value]

\* a table given by its fields and its caps by category
Table(minT, maxT, minD, maxD, maxDeriv, caps, maxDiff) ==
    caps @@ [x \in {"min_tons_to_derive", "tons_of_max_derivation",
                    "min_dist_to_derive", "dist_of_max_derivation",
                    "max_derivation", "max_path_difference"} |->
               CASE x = "min_tons_to_derive" -> minT
                 [] x = "tons_of_max_derivation" -> maxT
                 [] x = "min_dist_to_derive" -> minD
                 [] x = "dist_of_max_derivation" -> maxD
                 [] x = "max_derivation" -> maxDeriv
                 [] x = "max_path_difference" -> maxDiff]

\* (dist_rail, dist_road), as Python ints or as floats
PathDistances ==
    { <<Flt(11), Flt(10)>>, <<Flt(12), Flt(10)>>, <<Flt(13), Flt(10)>>,
      <<IntNum(13), IntNum(10)>>, <<Flt(10), Flt(0)>>, <<IntNum(10), IntNum(0)>>,
      <<IntNum(7), IntNum(10)>>, <<Flt(7), Flt(10)>> }

OdArg(ton, dist, category, intrazone, hasRailPath, pd) ==
    [ton |-> ton, dist |-> dist, category |-> category, intrazone |-> intrazone,
     hasRailPath |-> hasRailPath, distRail |-> pd[1], distRoad |-> pd[2]]

\* the parameters and the OD pair of the documented scenario
ScenarioTable == Table(Flt(100), Flt(2000), Flt(50), Flt(500), Dec(4, 5), NoCap, Fifth)
ScenarioOd == OdArg(Flt(500), Flt(120), 1, FALSE, TRUE, <<Flt(11), Flt(10)>>)

\* no cap by category, a cap above the generic one, a cap below it
CapsOfInputs == {NoCap, Cap(7, ThreeQuarters), Cap(1, Fifth)}

FnInputs ==
    { [p |-> Table(Flt(a), Flt(b), Flt(c), Flt(e), m, caps, Fifth),
       od |-> OdArg(Flt(t), Flt(d), k, FALSE, TRUE, <<Flt(11), Flt(10)>>)] :
        a \in {1, 2}, b \in {2, 4}, c \in {1, 2}, e \in {2, 4}, m \in {Half, One},
        caps \in CapsOfInputs, t \in 0..MaxUnits, d \in 0..MaxUnits,
        k \in Categories }
    \cup
    { [p |-> Table(Flt(2), Flt(4), Flt(2), Flt(4), Half, NoCap, md),
       od |-> OdArg(Flt(t), Flt(d), k, iz, hp, pd)] :
        md \in {Fifth, Half}, t \in {1, 3}, d \in {1, 3}, k \in {0, 1},
        iz \in BOOLEAN, hp \in BOOLEAN, pd \in PathDistances }
    \cup
    { [p |-> ScenarioTable, od |-> ScenarioOd] }

NotCalled == [called |-> FALSE, exc |-> "none"]

SpecFnIdleNet ==
    /\ params = EmptyTable
    /\ ods = <<>>
    /\ roadTon = <<>>
    /\ railTon = <<>>
    /\ roadOrig = <<>>
    /\ railDer = <<>>
    /\ pre = <<>>
    /\ last = [op |-> "none"]
    /\ steps = 0

InitFn ==
    /\ SpecFnIdleNet
    /\ fnIn \in FnInputs
    /\ fnOut = [der |-> NotCalled, coef |-> NotCalled]
    /\ ctorIn = <<>>
    /\ ctorOut = <<>>

CallDerivable ==
    /\ ~fnOut.der.called
    /\ fnOut' = [fnOut EXCEPT !.der =
                    [called |-> TRUE] @@ OdPairIsDerivable(fnIn.p, fnIn.od)]
    /\ UNCHANGED <<netVars, fnIn, ctorIn, ctorOut>>

CallCoefficient ==
    /\ ~fnOut.coef.called
    /\ fnOut' = [fnOut EXCEPT !.coef =
                    [called |-> TRUE] @@ GetDerivationCoefficient(fnIn.p, fnIn.od)]
    /\ UNCHANGED <<netVars, fnIn, ctorIn, ctorOut>>

NextFn == CallDerivable \/ CallCoefficient

SpecFn == InitFn /\ [][NextFn]_vars

---------------------------------------------------------------------------
(* Claims about the two private functions (checked under SpecFn) *)

\* the cap the documentation promises for an OD pair of the given category:
\* max_derivation_<category> when the table has it, else max_derivation
PromisedCap(p, category) ==
    IF ParamName(category) \in DOMAIN p
    THEN p[ParamName(category)]
    ELSE p["max_derivation"]

WellFormed(p) ==
    /\ Lt(p["min_tons_to_derive"], p["tons_of_max_derivation"])
    /\ Lt(p["min_dist_to_derive"], p["dist_of_max_derivation"])

AtMax(p, od) ==
    /\ Geq(od.ton, p["tons_of_max_derivation"])
    /\ Geq(od.dist, p["dist_of_max_derivation"])

AtMin(p, od) ==
    /\ Leq(od.dist, p["min_dist_to_derive"])
    /\ Geq(od.ton, p["min_tons_to_derive"])

\* C5: for a derivable OD pair and well-formed parameters (min_tons < max_tons,
\* min_dist < max_dist, cap >= 0) the coefficient is returned, not raised, and
\* lies in [0, cap], cap being max_derivation_<category> when set and
\* max_derivation otherwise.
C5_CoefficientWithinCap ==
    LET cap == PromisedCap(fnIn.p, fnIn.od.category)
    IN  (/\ fnOut.coef.called
         /\ fnOut.der.called
         /\ fnOut.der.exc = "none"
         /\ fnOut.der.val
         /\ WellFormed(fnIn.p)
         /\ Geq(cap, Zero))
        => /\ fnOut.coef.exc = "none"
           /\ Geq(fnOut.coef.val, Zero)
           /\ Leq(fnOut.coef.val, cap)

\* the documented scenario (tons 500, distance 120, thresholds 100 / 2000 and
\* 50 / 500, cap 0.8): the OD pair is derivable and its interpolated
\* coefficient, strictly inside (0, cap), is 0.148 to three decimals
C5_Witness ==
    /\ fnOut.coef.called
    /\ fnOut.der.called
    /\ fnOut.der.exc = "none"
    /\ fnOut.der.val
    /\ fnIn.p = ScenarioTable
    /\ fnIn.od = ScenarioOd
    /\ WellFormed(fnIn.p)
    /\ fnOut.coef.exc = "none"
    /\ Gt(fnOut.coef.val, Dec(1475, 10000))
    /\ Lt(fnOut.coef.val, Dec(1485, 10000))
    /\ Lt(fnOut.coef.val, PromisedCap(fnIn.p, fnIn.od.category))

\* C6 as stated: at tons >= max_tons and distance >= max_dist the coefficient is
\* the category's cap when set and the generic cap otherwise, and at
\* distance <= min_dist with tons >= min_tons it is exactly 0.
C6_AsStated ==
    fnOut.coef.called =>
        /\ AtMax(fnIn.p, fnIn.od) =>
              /\ fnOut.coef.exc = "none"
              /\ Eq(fnOut.coef.val, PromisedCap(fnIn.p, fnIn.od.category))
        /\ AtMin(fnIn.p, fnIn.od) =>
              /\ fnOut.coef.exc = "none"
              /\ Eq(fnOut.coef.val, Zero)

\* C6 amended: the saturation-at-max test is made first, so the coefficient is
\* exactly 0 at distance <= min_dist with tons >= min_tons only when the OD
\* pair is not also at saturation (tons >= max_tons and distance >= max_dist);
\* at saturation it is the category's cap when set, else the generic cap.
C6_SaturationMaxFirst ==
    fnOut.coef.called =>
        /\ AtMax(fnIn.p, fnIn.od) =>
              /\ fnOut.coef.exc = "none"
              /\ Eq(fnOut.coef.val, PromisedCap(fnIn.p, fnIn.od.category))
        /\ (AtMin(fnIn.p, fnIn.od) /\ ~AtMax(fnIn.p, fnIn.od)) =>
              /\ fnOut.coef.exc = "none"
              /\ Eq(fnOut.coef.val, Zero)

\* an OD pair at saturation, of a category whose cap is set and different
\* from max_derivation, has been given the category's cap
C6_Witness ==
    /\ fnOut.coef.called
    /\ ParamName(fnIn.od.category) \in DOMAIN fnIn.p
    /\ ~Eq(fnIn.p[ParamName(fnIn.od.category)], fnIn.p["max_derivation"])
    /\ AtMax(fnIn.p, fnIn.od)
    /\ Eq(fnOut.coef.val, fnIn.p[ParamName(fnIn.od.category)])

\* the product a * b of two finite floats, not rounded
ExactMul(a, b) == Canon(IF a.s = b.s THEN 0 ELSE 1, BMul(a.m, b.m), a.e + b.e)

\* the five rules of the documentation, the ratio taken exactly:
\* |dist_rail / dist_road - 1| < max_diff is |dist_rail - dist_road| <
\* max_diff * |dist_road|, the difference of the two distances being exact for
\* the distances of PathDistances
FiveRules(p, od) ==
    /\ ~od.intrazone
    /\ od.category # 0
    /\ od.hasRailPath
    /\ Gt(od.ton, p["min_tons_to_derive"])
    /\ Gt(od.dist, p["min_dist_to_derive"])
    /\ ~IsZeroNum(od.distRoad)
    /\ FLt(FAbs(Float(Sub(od.distRail, od.distRoad))),
           ExactMul(Float(p["max_path_difference"]), FAbs(Float(od.distRoad))))

\* C8: _od_pair_is_derivable returns true exactly when the five rules hold,
\* with |dist_rail / dist_road - 1| computed on the exact ratio.
C8_DerivableIffFiveRules ==
    fnOut.der.called =>
        ((fnOut.der.exc = "none" /\ fnOut.der.val) <=> FiveRules(fnIn.p, fnIn.od))
---------------------------------------------------------------------------
(* OD pair construction: OD(id, ton, path, gauge).  A Python string is the *)
(* sequence of its characters.                                             *)

Digits == <<"0", "1", "2", "3", "4", "5", "6", "7", "8", "9">>

DigitVal(c) == (CHOOSE i \in 1..10 : Digits[i] = c) - 1

\* int(s) for a string of decimal digits: leading zeros do not count
RECURSIVE ParseInt(_)
ParseInt(s) ==
    IF s = <<>> THEN 0
    ELSE 10 * ParseInt(SubSeq(s, 1, Len(s) - 1)) + DigitVal(s[Len(s)])

\* str(k) for k >= 0
RECURSIVE Str(_)
Str(k) == IF k < 10 THEN <<Digits[k + 1]>> ELSE Str(k \div 10) \o <<Digits[(k % 10) + 1]>>

\* s.split(sep) for a one-character separator
RECURSIVE Split(_, _)
Split(s, sep) ==
    IF \A i \in 1..Len(s) : s[i] # sep THEN <<s>>
    ELSE LET i == CHOOSE j \in 1..Len(s) :
                      s[j] = sep /\ \A h \in 1..(j - 1) : s[h] # sep
         IN  <<SubSeq(s, 1, i - 1)>> \o Split(SubSeq(s, i + 1, Len(s)), sep)

ParseAll(tokens) == [i \in 1..Len(tokens) |-> ParseInt(tokens[i])]

\* the link ids "a-b" of the consecutive pairs of a node path
LinksOf(path_nodes) ==
    [i \in 1..(Len(path_nodes) - 1) |->
        Str(path_nodes[i]) \o <<"-">> \o Str(path_nodes[i + 1])]

ODRawLinks(id, ton, path, gauge) ==
    LET tokens == Split(path, "-")
    IN  [id |-> id, ton |-> ton, path |-> path, gauge |-> gauge,
         nodes |-> ParseAll(Split(id, "-")),
         path_nodes |-> ParseAll(tokens),
         links |-> [i \in 1..(Len(tokens) - 1) |->
                       tokens[i] \o <<"-">> \o tokens[i + 1]]]

OD(id, ton, path, gauge) ==
    LET path_nodes == ParseAll(Split(path, "-"))
    IN  [id |-> id, ton |-> ton, path |-> path, gauge |-> gauge,
         nodes |-> ParseAll(Split(id, "-")),
         path_nodes |-> path_nodes,
         links |-> LinksOf(path_nodes)]

---------------------------------------------------------------------------
(* Specification SpecOD: the constructor on enumerated identifiers and paths *)

NodeIds == {7, 68, 69, 70}

\* the decimal spelling of each node id, written out
Spelling(k) ==
    CASE k = 7 -> <<"7">>
      [] k = 68 -> <<"6", "8">>
      [] k = 69 -> <<"6", "9">>
      [] k = 70 -> <<"7", "0">>

\* the spelling as the path table has it: padded with zeros to three digits
Padded(k) ==
    CASE k = 7 -> <<"0", "0", "7">>
      [] k = 68 -> <<"0", "6", "8">>
      [] k = 69 -> <<"0", "6", "9">>
      [] k = 70 -> <<"0", "7", "0">>

RECURSIVE Joined(_, _)
Joined(ns, padded) ==
    LET w(k) == IF padded THEN Padded(k) ELSE Spelling(k)
    IN  IF Len(ns) = 1 THEN w(ns[1])
        ELSE w(ns[1]) \o <<"-">> \o Joined(Tail(ns), padded)

NodePaths == UNION { [1..n -> NodeIds] : n \in 1..MaxPath }

CtorInputs ==
    { [o |-> o, d |-> d, route |-> r, padded |-> pad,
       id |-> Spelling(o) \o <<"-">> \o Spelling(d),
       path |-> Joined(r, pad)] :
        o \in NodeIds, d \in NodeIds, r \in NodePaths, pad \in BOOLEAN }

InitOD ==
    /\ SpecFnIdleNet
    /\ fnIn = <<>>
    /\ fnOut = <<>>
    /\ ctorIn \in CtorInputs
    /\ ctorOut = [built |-> FALSE]

Construct ==
    /\ ~ctorOut.built
    /\ ctorOut' = [built |-> TRUE] @@ OD(ctorIn.id, 333906, ctorIn.path, "ancha")
    /\ UNCHANGED <<netVars, fnIn, fnOut, ctorIn>>

NextOD == Construct

SpecOD == InitOD /\ [][NextOD]_vars

\* C7: nodes are the two integers of the identifier in identifier order,
\* path_nodes the integers of the path string in path order (leading zeros
\* dropped), links the n-1 strings "a-b" of the consecutive pairs, and the raw
\* path string is kept unchanged.
C7_Construction ==
    ctorOut.built =>
        /\ ctorOut.nodes = <<ctorIn.o, ctorIn.d>>
        /\ ctorOut.path_nodes = ctorIn.route
        /\ Len(ctorOut.links) = Len(ctorIn.route) - 1
        /\ \A i \in 1..(Len(ctorIn.route) - 1) :
              ctorOut.links[i] =
                  Spelling(ctorIn.route[i]) \o <<"-">> \o Spelling(ctorIn.route[i + 1])
        /\ ctorOut.path = ctorIn.path

\* the documented scenario: OD("70-68", 333906, "068-069-070", "ancha")
C7_Witness ==
    /\ ctorOut.built
    /\ ctorIn.id = <<"7", "0", "-", "6", "8">>
    /\ ctorIn.path = <<"0", "6", "8", "-", "0", "6", "9", "-", "0", "7", "0">>
    /\ ctorOut.nodes = <<70, 68>>
    /\ ctorOut.path_nodes = <<68, 69, 70>>
    /\ ctorOut.links = << <<"6", "8", "-", "6", "9">>, <<"6", "9", "-", "7", "0">> >>
---------------------------------------------------------------------------
(* The two networks *)

ODIds == 1..NumOD

OneAndHalf == Dec(3, 2)

\* the coefficients derive_to_railway is called with; it accepts any number
Coeffs == {Fifth, Half, One, OneAndHalf}

\* road network: OD pair i runs over the road links i and i+1, so that
\* neighbouring OD pairs share a link; a broken path names link 0, which the
\* link table does not hold
RoadLinkIds == 1..(NumOD + 1)
RoadGauge == "unica"
RoadPath(i, broken) == IF broken THEN <<i, 0>> ELSE <<i, i + 1>>

\* rail network: every path starts on rail link 1
RailLinkIds == 1..NumOD
RailGauges == {"ancha", "angosta"}
RailPath(i) == IF i = 1 THEN <<1>> ELSE <<1, i>>
RailGauge(category) == IF category = 7 THEN "angosta" ELSE "ancha"

OdKind(category, intrazone, hasRailPath, hasTwin, ton, dist, pd, broken) ==
    [category |-> category, intrazone |-> intrazone, hasRailPath |-> hasRailPath,
     hasTwin |-> hasTwin, ton0 |-> ton, dist |-> dist,
     distRail |-> pd[1], distRoad |-> pd[2], broken |-> broken]

\* the kinds of road OD pair a network is assembled from; tons and distances
\* are floats
OdKinds ==
    { \* interpolated
      OdKind(1, FALSE, TRUE, TRUE, Flt(3), Flt(3), <<Flt(11), Flt(10)>>, FALSE),
      \* at saturation
      OdKind(7, FALSE, TRUE, TRUE, Flt(4), Flt(4), <<Flt(11), Flt(10)>>, FALSE),
      \* category 0
      OdKind(0, FALSE, TRUE, TRUE, Flt(3), Flt(3), <<Flt(11), Flt(10)>>, FALSE),
      \* intrazone, no road distance
      OdKind(1, TRUE, TRUE, TRUE, Flt(3), Flt(3), <<Flt(10), Flt(0)>>, FALSE),
      \* no operable railway path
      OdKind(1, FALSE, FALSE, TRUE, Flt(3), Flt(3), <<Flt(11), Flt(10)>>, FALSE),
      \* no rail twin
      OdKind(1, FALSE, TRUE, FALSE, Flt(3), Flt(3), <<Flt(11), Flt(10)>>, FALSE),
      \* no road distance
      OdKind(1, FALSE, TRUE, TRUE, Flt(3), Flt(3), <<Flt(10), Flt(0)>>, FALSE),
      \* unknown link
      OdKind(1, FALSE, TRUE, TRUE, Flt(3), Flt(3), <<Flt(11), Flt(10)>>, TRUE) }

\* the parameter tables of the rail network: well formed with a cap for
\* category 7, min_tons = max_tons, min_dist = max_dist
NetTables ==
    { Table(Flt(2), Flt(4), Flt(2), Flt(4), Half, Cap(7, ThreeQuarters), Fifth),
      Table(Flt(2), Flt(2), Flt(2), Flt(4), Half, NoCap, Fifth),
      Table(Flt(2), Flt(4), Flt(2), Flt(2), Half, NoCap, Fifth) }

RECURSIVE SumOver(_, _)
SumOver(f, S) ==
    IF S = {} THEN Zero
    ELSE LET x == CHOOSE y \in S : TRUE IN Add(f[x], SumOver(f, S \ {x}))

Occurrences(q, x) == Cardinality({i \in 1..Len(q) : q[i] = x})

\* original-load assignment at network assembly: a road link carries the tons
\* of every road OD pair whose path runs over it
InitialLoad(kinds, l) ==
    SumOver([i \in ODIds |->
                 Mul(Flt(Occurrences(RoadPath(i, kinds[i].broken), l)), kinds[i].ton0)],
            ODIds)

\* the keys of the rail OD table: every (id, category) except missing twins
RailKeys(kinds) ==
    { k \in ODIds \X Categories : k[2] = kinds[k[1]].category => kinds[k[1]].hasTwin }

Ledgers == [roadTon |-> roadTon, railTon |-> railTon,
            roadOrig |-> roadOrig, railDer |-> railDer]

---------------------------------------------------------------------------
(* Collaborators of FreightNetwork: OD and Link mutators, table lookups *)

\* OD.derive_ton(other, coeff) on the OD ledgers: coeff of this pair's tons
\* leaves it and joins the other pair
DeriveTon(L, i, key, coeff) ==
    LET moved == Mul(L.roadTon[i], coeff)
    IN  [L EXCEPT !.roadTon[i] = Sub(@, moved),
                  !.railTon[key] = Add(@, moved)]

\* Link.remove_original_ton(ton), Link.add_derived_ton(ton)
RemoveOriginalTon(load, ton) == Sub(load, ton)
AddDerivedTon(load, ton) == Add(load, ton)

\* the loop of lines 51-53 on the ledgers: [L, exc]; get_link fails on an
\* unknown link and leaves the links before it changed
RECURSIVE RemoveFromRoadLinks(_, _, _, _)
RemoveFromRoadLinks(L, links, gauge, derived_tons) ==
    IF links = <<>> THEN [L |-> L, exc |-> "none"]
    ELSE IF <<Head(links), gauge>> \notin DOMAIN L.roadOrig
    THEN [L |-> L, exc |-> "KeyError"]
    ELSE RemoveFromRoadLinks(
             [L EXCEPT !.roadOrig[<<Head(links), gauge>>] =
                           RemoveOriginalTon(@, derived_tons)],
             Tail(links), gauge, derived_tons)

\* the loop of lines 56-58
RECURSIVE AddToRailLinks(_, _, _, _)
AddToRailLinks(L, links, gauge, derived_tons) ==
    IF links = <<>> THEN [L |-> L, exc |-> "none"]
    ELSE IF <<Head(links), gauge>> \notin DOMAIN L.railDer
    THEN [L |-> L, exc |-> "KeyError"]
    ELSE AddToRailLinks(
             [L EXCEPT !.railDer[<<Head(links), gauge>>] =
                           AddDerivedTon(@, derived_tons)],
             Tail(links), gauge, derived_tons)

---------------------------------------------------------------------------
(* FreightNetwork, public part.  A call maps the ledgers L to the ledgers   *)
(* it leaves behind and the exception it raised, if any: [L, exc].         *)

\* lines 50-58 of derive_to_railway, from the ledgers L1 that derive_ton
\* left: the road links lose derived_tons, then the rail links gain them
DeriveOnLinks(L1, i, k, derived_tons) ==
    LET RailLoop(road) ==
            IF road.exc # "none" THEN road
            ELSE AddToRailLinks(road.L, RailPath(i), RailGauge(k.category), derived_tons)
    IN  RailLoop(RemoveFromRoadLinks(L1, RoadPath(i, k.broken), RoadGauge, derived_tons))

\* derive_to_railway handing derive_ton the tons instead of the coefficient
DeriveToRailwayTonsForCoeff(L, i, k, coeff) ==
    LET Derive(derived_tons) ==
            DeriveOnLinks(DeriveTon(L, i, <<i, k.category>>, derived_tons),
                          i, k, derived_tons)
    IN  IF <<i, k.category>> \notin DOMAIN L.railTon
        THEN [L |-> L, exc |-> "LookupError"]
        ELSE Derive(Mul(L.roadTon[i], coeff))

\* derive_to_railway computing derived_tons after derive_ton has moved the tons
DeriveToRailwayLateTons(L, i, k, coeff) ==
    LET Derive(L1) == DeriveOnLinks(L1, i, k, Mul(L1.roadTon[i], coeff))
    IN  IF <<i, k.category>> \notin DOMAIN L.railTon
        THEN [L |-> L, exc |-> "LookupError"]
        ELSE Derive(DeriveTon(L, i, <<i, k.category>>, coeff))

\* derive_to_railway(od_road, coeff) for the road OD pair i of kind k:
\* derived_tons is computed from the tons before derive_ton moves them
\* (line 44); get_od fails when the rail network has no twin (line 47)
DeriveToRailway(L, i, k, coeff) ==
    IF <<i, k.category>> \notin DOMAIN L.railTon
    THEN [L |-> L, exc |-> "LookupError"]
    ELSE DeriveOnLinks(DeriveTon(L, i, <<i, k.category>>, coeff),
                       i, k, Mul(L.roadTon[i], coeff))

\* the OD pair as the private functions read it
OdView(L, i, k) == [ton |-> L.roadTon[i]] @@ k

\* derive_all_to_railway computing the coefficient for the first derivable OD
\* pair only and reusing it for the others (stale = None while none is computed)
RECURSIVE DeriveAllReusing(_, _, _, _, _)
DeriveAllReusing(L, p, kinds, order, stale) ==
    LET Transferred(r, coeff) ==
            IF r.exc # "none" THEN [L |-> r.L, exc |-> r.exc, rest |-> order]
            ELSE DeriveAllReusing(r.L, p, kinds, Tail(order), coeff)
        Derive(coeff) ==
            IF coeff.exc # "none" THEN [L |-> L, exc |-> coeff.exc, rest |-> order]
            ELSE Transferred(DeriveToRailway(L, Head(order), kinds[Head(order)], coeff.val),
                             coeff.val)
        Coefficient(od) ==
            IF stale = None THEN GetDerivationCoefficient(p, od)
            ELSE [exc |-> "none", val |-> stale]
        Decide(od, derivable) ==
            IF derivable.exc # "none" THEN [L |-> L, exc |-> derivable.exc, rest |-> order]
            ELSE IF ~derivable.val
            THEN DeriveAllReusing(L, p, kinds, Tail(order), stale)
            ELSE Derive(Coefficient(od))
        Visit(od) == Decide(od, OdPairIsDerivable(p, od))
    IN  IF order = <<>> THEN [L |-> L, exc |-> "none", rest |-> <<>>]
        ELSE Visit(OdView(L, Head(order), kinds[Head(order)]))

DeriveAllStaleCoefficient(L, p, kinds, order) ==
    DeriveAllReusing(L, p, kinds, order, None)

\* derive_all_to_railway() with iter_od_pairs() yielding the OD pairs in
\* `order`: [L, exc, rest], rest being the part of the iteration that an
\* exception cut off, the OD pair that raised first.  Visit is one turn of
\* the loop of lines 73-82: the eligibility test (line 76), the coefficient
\* (line 79) and the transfer (line 82), each computed once.
RECURSIVE DeriveAllToRailway(_, _, _, _)
DeriveAllToRailway(L, p, kinds, order) ==
    LET Transferred(r) ==
            IF r.exc # "none" THEN [L |-> r.L, exc |-> r.exc, rest |-> order]
            ELSE DeriveAllToRailway(r.L, p, kinds, Tail(order))
        Derive(coeff) ==
            IF coeff.exc # "none" THEN [L |-> L, exc |-> coeff.exc, rest |-> order]
            ELSE Transferred(DeriveToRailway(L, Head(order), kinds[Head(order)], coeff.val))
        Decide(od, derivable) ==
            IF derivable.exc # "none" THEN [L |-> L, exc |-> derivable.exc, rest |-> order]
            ELSE IF ~derivable.val THEN DeriveAllToRailway(L, p, kinds, Tail(order))
            ELSE Derive(GetDerivationCoefficient(p, od))
        Visit(od) == Decide(od, OdPairIsDerivable(p, od))
    IN  IF order = <<>> THEN [L |-> L, exc |-> "none", rest |-> <<>>]
        ELSE Visit(OdView(L, Head(order), kinds[Head(order)]))

---------------------------------------------------------------------------
(* Specification Spec: calls of the public operations on assembled networks *)

Orders == { q \in [1..NumOD -> ODIds] : \A a, b \in 1..NumOD : q[a] = q[b] => a = b }

Init ==
    /\ params \in NetTables
    /\ ods \in [ODIds -> OdKinds]
    /\ roadTon = [i \in ODIds |-> ods[i].ton0]
    /\ railTon = [k \in RailKeys(ods) |-> One]
    /\ roadOrig = [k \in RoadLinkIds \X {RoadGauge} |-> InitialLoad(ods, k[1])]
    /\ railDer = [k \in RailLinkIds \X RailGauges |-> Zero]
    /\ pre = [roadTon |-> roadTon, railTon |-> railTon,
              roadOrig |-> roadOrig, railDer |-> railDer]
    /\ last = [op |-> "none", od |-> 0, coeff |-> Zero, rest |-> <<>>, exc |-> "none"]
    /\ steps = 0
    /\ fnIn = <<>>
    /\ fnOut = <<>>
    /\ ctorIn = <<>>
    /\ ctorOut = <<>>

Leave(r) ==
    /\ roadTon' = r.L.roadTon
    /\ railTon' = r.L.railTon
    /\ roadOrig' = r.L.roadOrig
    /\ railDer' = r.L.railDer
    /\ pre' = Ledgers
    /\ steps' = steps + 1
    /\ UNCHANGED <<params, ods, fnIn, fnOut, ctorIn, ctorOut>>

CallDeriveToRailway ==
    /\ steps < MaxSteps
    /\ \E i \in ODIds, c \in Coeffs :
          \E r \in {DeriveToRailway(Ledgers, i, ods[i], c)} :
              /\ Leave(r)
              /\ last' = [op |-> "derive_to_railway", od |-> i, coeff |-> c,
                          rest |-> <<>>, exc |-> r.exc]

CallDeriveAllToRailway ==
    /\ steps < MaxSteps
    /\ \E order \in Orders :
          \E r \in {DeriveAllToRailway(Ledgers, params, ods, order)} :
              /\ Leave(r)
              /\ last' = [op |-> "derive_all_to_railway", od |-> 0, coeff |-> Zero,
                          rest |-> r.rest, exc |-> r.exc]

Next == CallDeriveToRailway \/ CallDeriveAllToRailway

Spec == Init /\ [][Next]_vars

---------------------------------------------------------------------------
(* Claims about the public operations (checked under Spec) *)

\* the rounding tolerance for tons: two floats are close when they differ by
\* at most 1e-9 (the tons of the networks are below 10); nan is close to nothing
Tol == Dec(1, 1000000000)
Close(a, b) == FLeq(FAbs(FSub(Float(a), Float(b))), Tol)

\* the same float up to rounding, or nan on both sides
Same(a, b) == (IsNaN(Float(a)) /\ IsNaN(Float(b))) \/ Close(a, b)

SameTable(f, g) == DOMAIN f = DOMAIN g /\ \A k \in DOMAIN f : Same(f[k], g[k])

SameLedgers(L1, L2) ==
    /\ SameTable(L1.roadTon, L2.roadTon)
    /\ SameTable(L1.railTon, L2.railTon)
    /\ SameTable(L1.roadOrig, L2.roadOrig)
    /\ SameTable(L1.railDer, L2.railDer)

TwinKey(i) == <<i, ods[i].category>>

IsUnit(c) == Geq(c, Zero) /\ Leq(c, One)

RoadKeysOf(i) ==
    { <<RoadPath(i, ods[i].broken)[n], RoadGauge>> :
        n \in 1..Len(RoadPath(i, ods[i].broken)) }

RailKeysOf(i) ==
    { <<RailPath(i)[n], RailGauge(ods[i].category)>> : n \in 1..Len(RailPath(i)) }

Removed == [k \in DOMAIN roadOrig |-> Sub(pre.roadOrig[k], roadOrig[k])]

Added == [k \in DOMAIN railDer |-> Sub(railDer[k], pre.railDer[k])]

\* C1 as stated: after derive_to_railway(od_road, c) on a road OD pair with a
\* rail twin and c in [0, 1], the road pair's tons equal tons_before * (1 - c),
\* the twin's tons equal its tons_before + road tons_before * c, and the sum
\* of the two is the same as before.
C1_AsStated ==
    (/\ last.op = "derive_to_railway"
     /\ TwinKey(last.od) \in DOMAIN pre.railTon
     /\ IsUnit(last.coeff))
    => LET i == last.od
           key == TwinKey(i)
       IN  /\ Eq(roadTon[i], Mul(pre.roadTon[i], Sub(One, last.coeff)))
           /\ Eq(railTon[key], Add(pre.railTon[key], Mul(pre.roadTon[i], last.coeff)))
           /\ Eq(Add(roadTon[i], railTon[key]), Add(pre.roadTon[i], pre.railTon[key]))

\* C1 amended: the three equalities hold up to the rounding of the float
\* operations (within Tol, nan counting as equal to nan); the twin's tons are
\* exactly the float sum tons_before + road tons_before * c.
C1_TwinPairTransferRounded ==
    (/\ last.op = "derive_to_railway"
     /\ TwinKey(last.od) \in DOMAIN pre.railTon
     /\ IsUnit(last.coeff))
    => LET i == last.od
           key == TwinKey(i)
       IN  /\ Same(roadTon[i], Mul(pre.roadTon[i], Sub(One, last.coeff)))
           /\ railTon[key] = Add(pre.railTon[key], Mul(pre.roadTon[i], last.coeff))
           /\ Same(Add(roadTon[i], railTon[key]), Add(pre.roadTon[i], pre.railTon[key]))

\* a fifth of a road OD pair's 3 tons has just been derived to its twin: the
\* pair is left with 3 - 3 * 0.2 = 2.4, which is close to but not the float
\* 3 * (1 - 0.2) = 2.4000000000000004
C1_Witness ==
    /\ last.op = "derive_to_railway"
    /\ last.coeff = Fifth
    /\ TwinKey(last.od) \in DOMAIN pre.railTon
    /\ Eq(pre.roadTon[last.od], Flt(3))
    /\ ~Eq(roadTon[last.od], Mul(pre.roadTon[last.od], Sub(One, last.coeff)))
    /\ Close(roadTon[last.od], Mul(pre.roadTon[last.od], Sub(One, last.coeff)))
    /\ Gt(railTon[TwinKey(last.od)], pre.railTon[TwinKey(last.od)])

TotalTons(L) ==
    Add(SumOver(L.roadTon, DOMAIN L.roadTon), SumOver(L.railTon, DOMAIN L.railTon))

\* C2: derive_all_to_railway leaves the sum of the tons of all road and all
\* rail OD pairs as it was (up to float rounding, within Tol), also when it
\* is called repeatedly.
C2_BulkPreservesTotalTons ==
    last.op = "derive_all_to_railway" => Close(TotalTons(Ledgers), TotalTons(pre))

\* C3: every link's original_ton and derived_ton is non-negative in every
\* reachable state.
C3_LinkLoadsNonNegative ==
    /\ \A k \in DOMAIN roadOrig : Geq(roadOrig[k], Zero)
    /\ \A k \in DOMAIN railDer : Geq(railDer[k], Zero)

\* C4 as stated: the tonnage removed from original_ton, summed over the road
\* links of the path, equals derived_tons (up to float rounding), and so does
\* the tonnage added to derived_ton summed over the rail links of the twin's
\* path.
C4_AsStated ==
    (last.op = "derive_to_railway" /\ last.exc = "none")
    => LET derived_tons == Mul(pre.roadTon[last.od], last.coeff)
       IN  /\ Same(SumOver(Removed, RoadKeysOf(last.od)), derived_tons)
           /\ Same(SumOver(Added, RailKeysOf(last.od)), derived_tons)

\* remove_original_ton(ton) / add_derived_ton(ton) applied n times to a load
RECURSIVE RemovedTimes(_, _, _)
RemovedTimes(load, ton, n) ==
    IF n = 0 THEN load ELSE RemovedTimes(RemoveOriginalTon(load, ton), ton, n - 1)

RECURSIVE AddedTimes(_, _, _)
AddedTimes(load, ton, n) ==
    IF n = 0 THEN load ELSE AddedTimes(AddDerivedTon(load, ton), ton, n - 1)

\* C4 amended: every road link of the path ends with its original_ton less
\* derived_tons and every rail link of the twin's path with its derived_ton
\* plus derived_tons, once per occurrence of the link in the path, and no
\* other link changes; so, for loads that are numbers, the sums removed and
\* added over the path are, up to float rounding, derived_tons times the
\* number of links on it.
C4_EachLinkOfPath ==
    (last.op = "derive_to_railway" /\ last.exc = "none")
    => LET i == last.od
           derived_tons == Mul(pre.roadTon[i], last.coeff)
           road == RoadPath(i, ods[i].broken)
           rail == RailPath(i)
           onRoad(k) == IF k[2] = RoadGauge THEN Occurrences(road, k[1]) ELSE 0
           onRail(k) == IF k[2] = RailGauge(ods[i].category)
                        THEN Occurrences(rail, k[1]) ELSE 0
           numbers == /\ ~IsNaN(derived_tons)
                      /\ \A k \in DOMAIN roadOrig : ~IsNaN(pre.roadOrig[k])
                      /\ \A k \in DOMAIN railDer : ~IsNaN(pre.railDer[k])
       IN  /\ \A k \in DOMAIN roadOrig :
                 roadOrig[k] = RemovedTimes(pre.roadOrig[k], derived_tons, onRoad(k))
           /\ \A k \in DOMAIN railDer :
                 railDer[k] = AddedTimes(pre.railDer[k], derived_tons, onRail(k))
           /\ numbers =>
                 /\ Close(SumOver(Removed, RoadKeysOf(i)),
                          Mul(Flt(Len(road)), derived_tons))
                 /\ Close(SumOver(Added, RailKeysOf(i)),
                          Mul(Flt(Len(rail)), derived_tons))

\* a transfer of 3/2 tons over a road path of two links and a rail path of one
C4_Witness ==
    /\ last.op = "derive_to_railway"
    /\ last.exc = "none"
    /\ Eq(Mul(pre.roadTon[last.od], last.coeff), OneAndHalf)
    /\ Len(RoadPath(last.od, ods[last.od].broken)) = 2
    /\ Len(RailPath(last.od)) = 1
    /\ \A k \in RoadKeysOf(last.od) : Eq(Removed[k], OneAndHalf)

\* the same number: equal as Python compares floats, or nan on both sides
Identical(a, b) == (IsNaN(Float(a)) /\ IsNaN(Float(b))) \/ Eq(a, b)

IdenticalTable(f, g) == DOMAIN f = DOMAIN g /\ \A k \in DOMAIN f : Identical(f[k], g[k])

\* C9 as stated: whatever the order in which the road OD pairs are iterated,
\* derive_all_to_railway leaves equal tons of every road and rail OD pair and
\* equal original_ton and derived_ton of every link.
C9_AsStated ==
    last.op = "derive_all_to_railway"
    => \A q \in Orders :
          LET r == DeriveAllToRailway(pre, params, ods, q)
          IN  /\ IdenticalTable(r.L.roadTon, roadTon)
              /\ IdenticalTable(r.L.railTon, railTon)
              /\ IdenticalTable(r.L.roadOrig, roadOrig)
              /\ IdenticalTable(r.L.railDer, railDer)

\* the OD pairs that an iteration cut off at `rest` has completed: all of them
\* when rest is empty, else those before the OD pair that raised
Completed(rest) == ODIds \ {rest[n] : n \in 1..Len(rest)}

\* OD pair j and its rail twin have the same tons in both ledgers
SameTonsOf(j, L1, L2) ==
    /\ L1.roadTon[j] = L2.roadTon[j]
    /\ TwinKey(j) \in DOMAIN L1.railTon => L1.railTon[TwinKey(j)] = L2.railTon[TwinKey(j)]

\* C9 amended: for every state a bulk derivation is called in and every two
\* iteration orders, it raises under one exactly when it raises under the
\* other; an OD pair that both iterations complete ends, with its rail twin,
\* with the very same tons; an OD pair iterated after the one that raised
\* keeps its tons; and two iterations that complete the same OD pairs and stop
\* at the same one (all that return without raising do) leave the same tons
\* and link loads up to float rounding.  What the order decides is which OD
\* pairs are reached before a raise.
C9_OrderDecidesOnlyThePairsReached ==
    last.op = "derive_all_to_railway"
    => \A q \in Orders :
          LET r == DeriveAllToRailway(pre, params, ods, q)
          IN  /\ (r.exc = "none") <=> (last.exc = "none")
              /\ \A j \in Completed(r.rest) \cap Completed(last.rest) :
                    SameTonsOf(j, r.L, Ledgers)
              /\ \A n \in 2..Len(r.rest) : SameTonsOf(r.rest[n], r.L, pre)
              /\ (/\ Completed(r.rest) = Completed(last.rest)
                  /\ r.rest # <<>> => Head(r.rest) = Head(last.rest))
                 => SameLedgers(r.L, Ledgers)

\* a bulk derivation that raised on the OD pair it iterated last, after it had
\* transferred the other one, which the reverse order leaves untouched
C9_Witness ==
    /\ last.op = "derive_all_to_railway"
    /\ last.exc # "none"
    /\ Len(last.rest) = 1
    /\ \E j \in Completed(last.rest) :
          /\ Lt(roadTon[j], pre.roadTon[j])
          /\ \E q \in Orders :
                LET r == DeriveAllToRailway(pre, params, ods, q)
                IN  /\ r.exc # "none"
                    /\ j \notin Completed(r.rest)
                    /\ Eq(r.L.roadTon[j], pre.roadTon[j])

\* the fatal conditions of the documentation, for OD pair i as the bulk
\* derivation finds it (its tons are those it had when the call started)
Fatal(i) ==
    LET k == ods[i]
        od == OdView(pre, i, k)
        ratioReached == ~k.intrazone /\ k.category # 0 /\ k.hasRailPath
        derivable == OdPairIsDerivable(params, od)
        eligible == derivable.exc = "none" /\ derivable.val
        interpolated == eligible /\ ~AtMax(params, od) /\ ~AtMin(params, od)
        noScale == IsZero(FSub(Float(params["dist_of_max_derivation"]),
                                Float(params["min_dist_to_derive"])))
        v == VectorDistances(params, od)
        zeroRoadDistance == ratioReached /\ IsZeroNum(od.distRoad)
        zeroScale == interpolated /\ noScale
        zeroTotal == interpolated /\ ~noScale /\ IsZero(FAdd(v.to_min, v.to_max))
        transferred == eligible /\ ~zeroScale
        noTwin == transferred /\ TwinKey(i) \notin DOMAIN pre.railTon
        unknownLink == transferred /\ ~noTwin /\ k.broken
    IN  zeroRoadDistance \/ zeroScale \/ zeroTotal \/ noTwin \/ unknownLink

Untouched(j) ==
    /\ roadTon[j] = pre.roadTon[j]
    /\ TwinKey(j) \in DOMAIN railTon => railTon[TwinKey(j)] = pre.railTon[TwinKey(j)]

\* C10: when an OD pair of the network meets a fatal condition, the bulk
\* derivation raises at the first such pair of the iteration and transfers no
\* OD pair that comes later in the iteration.
C10_FatalConditionAborts ==
    (last.op = "derive_all_to_railway" /\ \E i \in ODIds : Fatal(i))
    => /\ last.exc # "none"
       /\ last.rest # <<>>
       /\ Fatal(Head(last.rest))
       /\ \A n \in 2..Len(last.rest) : Untouched(last.rest[n])

====
